---- MODULE Spec2Model ----
(***************************************************************************)
(* A model of yt_helper (src/yt_helper/main.py): the two metadata          *)
(* operations and the four download pipelines, as a sequence of top-level  *)
(* calls made by one caller against a file system that persists between    *)
(* the calls.  The external tools (yt-dlp, ffmpeg, PIL, the os/audio/video *)
(* helpers) are modelled by their outcomes: each may raise, and a tool     *)
(* that writes a file may write a well-formed or a malformed one.          *)
(***************************************************************************)
EXTENDS Integers, Sequences, FiniteSets, TLC

VARIABLES
    fs,       \* the file system: a function from existing paths to contents
    scratch,  \* the identifiers of the scratch directories that exist
    stack,    \* the call stack of the running top-level call (top = last)
    exc,      \* the kind of the exception that propagates up the stack, or ""
    outcome,  \* "idle", "running", "returned" or "raised" (top-level call)
    ret,      \* the value the last top-level call returned
    err,      \* the kind of the exception the last top-level call raised
    cur,      \* the arguments of the current (or last) top-level call
    log,      \* the events of the current (or last) top-level call, in order
    xres,     \* the last result of the extractor's metadata mode
    pre,      \* the file system as it was when the top-level call started
    procs     \* the calls of the concurrent callers, one record per caller

vars == <<fs, scratch, stack, exc, outcome, ret, err, cur, log, xres, pre, procs>>

(***************************************************************************)
(* Program constants                                                       *)
(***************************************************************************)
DefaultSampleRate == 44100
LowHeight == 240

(***************************************************************************)
(* The world: URLs, paths, file contents                                   *)
(***************************************************************************)
\* "" is the empty URL, "down" an unreachable one, "page" a reachable URL
\* that holds no media, "vid" a reachable video URL.
Urls == {"", "down", "page", "vid"}

emptystring(s) == s = ""
is_working_url(u) == u \in {"page", "vid"}

Path(d, b, e) == [dir |-> d, base |-> b, ext |-> e]
NoPath == Path("", "", "")
Omitted == Path("?", "", "")

\* osh.os_path_constructor([temp_directory, name])
TmpDir(id) == IF id = 1 THEN "tmp1" ELSE IF id = 2 THEN "tmp2" ELSE "tmp3"
ScratchDirs == {"tmp1", "tmp2", "tmp3"}

\* str.lower() on the extensions of the model
Lower(e) ==
    CASE e = "MP3" -> "mp3"
      [] e = "MP4" -> "mp4"
      [] e = "PNG" -> "png"
      [] OTHER -> e

Junk == [kind |-> "junk", rate |-> 0, height |-> 0, sound |-> FALSE]
Audio(r) == [kind |-> "audio", rate |-> r, height |-> 0, sound |-> TRUE]
Video(h, s) == [kind |-> "video", rate |-> 0, height |-> h, sound |-> s]
Image == [kind |-> "image", rate |-> 0, height |-> 0, sound |-> FALSE]

file_exists(f, p) == p \in DOMAIN f
WriteFile(f, p, c) == [q \in (DOMAIN f) \cup {p} |-> IF q = p THEN c ELSE f[q]]
RemoveFile(f, p) == [q \in (DOMAIN f) \ {p} |-> f[q]]

\* ah.is_valid_audio_file / vh.is_valid_video_file
is_valid_audio_file(f, p) == file_exists(f, p) /\ f[p].kind = "audio"
is_valid_video_file(f, p) == file_exists(f, p) /\ f[p].kind = "video"

\* A check that logs and returns whatever the condition is
check_never_raises(cond) == TRUE

\* osh.check(condition, msg): TRUE when the call returns, FALSE when it raises
check(cond) == cond

(***************************************************************************)
(* The extraction tool in metadata mode, and the two metadata operations   *)
(***************************************************************************)
\* A metadata value: the key is absent, maps to None, or maps to a string.
Tags == {"absent", "null", "str"}
Meta(r, t, d) == [r |-> r, title |-> t, description |-> d]
MetaNone == Meta("None", "absent", "absent")
MetaRaise == Meta("raise", "absent", "absent")
MetaUnset == Meta("unset", "absent", "absent")

\* ydl.extract_info(url, download=False): raises, returns None, or returns
\* an info dict (never empty: it always holds the id of the media).
ExtractInfo(u) ==
    CASE u = "vid" -> {MetaRaise, MetaNone} \cup {Meta("dict", t, d) : t \in Tags, d \in Tags}
      [] u = "page" -> {MetaRaise, MetaNone}
      [] OTHER -> {MetaRaise}

\* _aux_ytdlp_meta_data without its try/except: the exception gets out
aux_without_except(x) == x

\* _aux_ytdlp_meta_data: the extractor's result, None when it raised
_aux_ytdlp_meta_data(x) == IF x.r = "raise" THEN MetaNone ELSE x

\* dict.get(key): None when the key is absent
Get(tag) == IF tag = "absent" THEN "null" ELSE tag

\* Python's truth value of `meta`
Truthy(meta) == meta.r = "dict"

\* A returned value: None, a boolean, a metadata mapping or a path
Ret(k, b, t, d, p) == [kind |-> k, b |-> b, title |-> t, description |-> d, path |-> p]
RetNone == Ret("None", FALSE, "absent", "absent", NoPath)
RetUnset == Ret("unset", FALSE, "absent", "absent", NoPath)
RetBool(b) == Ret("bool", b, "absent", "absent", NoPath)
RetDict(t, d) == Ret("dict", FALSE, t, d, NoPath)
RetPath(p) == Ret("path", FALSE, "absent", "absent", p)

\* An event of the log: the stage `ev` of operation `op` at call depth `d`
\* ran, `ok` tells whether it succeeded, `x` is a detail of the stage
Ev(d, op, ev, ok, x) == [d |-> d, op |-> op, ev |-> ev, ok |-> ok, x |-> x]

NoArgs == [op |-> "", url |-> "", out |-> NoPath, rate |-> 0, prov |-> NoPath]
Args(op, u, out, rate, prov) == [op |-> op, url |-> u, out |-> out, rate |-> rate, prov |-> prov]

CanCall == stack = <<>> /\ exc = "" /\ outcome # "running"

\* What a finished metadata call leaves: the result, and nothing else changed.
MetaDone(op, u, o, r, e, l, x) ==
    /\ outcome' = o
    /\ ret' = r
    /\ err' = e
    /\ log' = l
    /\ xres' = x
    /\ cur' = Args(op, u, NoPath, 0, NoPath)
    /\ pre' = fs
    /\ UNCHANGED <<fs, scratch, stack, exc, procs>>

is_valid_video_url(u) ==
    /\ CanCall
    /\ IF emptystring(u)
       THEN MetaDone("is_valid", u, "returned", RetBool(FALSE), "", <<>>, MetaUnset)
       ELSE IF ~is_working_url(u)
       THEN MetaDone("is_valid", u, "returned", RetBool(FALSE), "",
                     <<Ev(1, "is_valid", "reach", FALSE, "")>>, MetaUnset)
       ELSE \E x \in ExtractInfo(u) :
              LET meta == _aux_ytdlp_meta_data(x)
                  l == <<Ev(1, "is_valid", "reach", TRUE, ""),
                         Ev(1, "is_valid", "extract_info", x.r # "raise", "")>>
              IN IF meta.r = "raise"
                 THEN MetaDone("is_valid", u, "raised", RetUnset, "tool", l, x)
                 ELSE MetaDone("is_valid", u, "returned", RetBool(Truthy(meta)), "", l, x)

video_url_meta_data(u) ==
    /\ CanCall
    /\ IF ~check(is_working_url(u))
       THEN MetaDone("meta", u, "raised", RetUnset, "check",
                     <<Ev(1, "meta", "reach", is_working_url(u), "")>>, MetaUnset)
       ELSE \E x \in ExtractInfo(u) :
              LET meta == _aux_ytdlp_meta_data(x)
                  l == <<Ev(1, "meta", "reach", is_working_url(u), ""),
                         Ev(1, "meta", "extract_info", x.r # "raise", "")>>
                  title == Get(meta.title)
                  description == Get(meta.description)
              IN IF meta.r = "raise"
                 THEN MetaDone("meta", u, "raised", RetUnset, "tool", l, x)
                 ELSE IF ~check(meta.r # "None")
                 THEN MetaDone("meta", u, "raised", RetUnset, "check", l, x)
                 ELSE IF description = "null"
                 THEN \* description.split on None
                      MetaDone("meta", u, "raised", RetUnset, "AttributeError", l, x)
                 ELSE MetaDone("meta", u, "returned",
                               RetDict(title, description), "", l, x)

(***************************************************************************)
(* The download pipelines: frames, and the tools' outcomes                 *)
(***************************************************************************)
Downloaders == {"thumbnail", "audio", "video"}
DownloadOps == Downloaders \cup {"composite"}

\* The sample rates a caller asks for, and those the hosted media come in
Rates == {DefaultSampleRate, 22050}
NativeRates == {DefaultSampleRate, 48000}
NativeHeight == 720

\* The destinations a caller passes (in the caller's directory "out")
Dests(op) ==
    CASE op = "thumbnail" -> {Path("out", "t", "PNG")}
      [] op = "audio" -> {Path("out", "a", "MP3")}
      [] OTHER -> {Path("out", "v", "MP4")}

\* The audio files a caller of the composite operation may supply
GoodMp3 == Path("in", "good", "mp3")
GoodWav == Path("in", "good", "wav")
BadMp3 == Path("in", "bad", "mp3")
Provided == {NoPath, GoodMp3, GoodWav, BadMp3}

\* The extensions the extraction tool writes, per media kind
NativeExts(op) ==
    CASE op = "thumbnail" -> {"png", "webp"}
      [] op = "audio" -> {"mp3", "webm"}
      [] OTHER -> {"mp4", "webm"}

\* The contents the extraction tool writes: well-formed media, or a
\* truncated or corrupt file
NativeContents(op) ==
    CASE op = "thumbnail" -> {Image, Junk}
      [] op = "audio" -> {Audio(r) : r \in NativeRates} \cup {Junk}
      [] OTHER -> {Video(NativeHeight, s) : s \in BOOLEAN} \cup {Junk}

\* ydl.download([url]): raises (DownloadError), or returns having written
\* the files `<o>.<ext>` of the result: a function from extensions to contents
Download(op, u) ==
    IF u = "vid"
    THEN {[r |-> "raise", files |-> <<>>]} \cup
         {[r |-> "wrote", files |-> g] :
            g \in UNION {[E -> NativeContents(op)] : E \in SUBSET NativeExts(op)}}
    ELSE IF u = "page"
    THEN {[r |-> "raise", files |-> <<>>], [r |-> "wrote", files |-> <<>>]}
    ELSE {[r |-> "raise", files |-> <<>>]}

\* A converter (ah.sound_converter, vh.video_converter, PIL's open and save,
\* ffmpeg's run) given an input and the well-formed content it is asked
\* for: it raises, writes that content, or writes a malformed file; on an
\* input it cannot decode it raises.
Convert(input, wanted) ==
    IF input.kind = "junk"
    THEN {[r |-> "raise", c |-> Junk]}
    ELSE {[r |-> "raise", c |-> Junk], [r |-> "wrote", c |-> wanted], [r |-> "wrote", c |-> Junk]}

Frame(op, u, out, rate, prov) ==
    [op |-> op, pc |-> "enter", url |-> u, out |-> out, rate |-> rate,
     prov |-> prov, tmp |-> 0, recv |-> NoPath]

Top == stack[Len(stack)]
Depth == Len(stack)
SetTop(fr) == [stack EXCEPT ![Len(stack)] = fr]
Pop == SubSeq(stack, 1, Len(stack) - 1)
Running == stack # <<>> /\ exc = ""

\* A stage fails: the exception starts to propagate
Fail(kind, l) ==
    /\ exc' = kind
    /\ log' = log \o l
    /\ UNCHANGED <<fs, scratch, stack, outcome, ret, err, cur, xres, pre, procs>>

\* A stage succeeds: the top frame moves on
Step(fr, f, l) ==
    /\ stack' = SetTop(fr)
    /\ fs' = f
    /\ log' = log \o l
    /\ UNCHANGED <<scratch, exc, outcome, ret, err, cur, xres, pre, procs>>

\* A top-level call of one of the four download operations
Invoke(op, u, out, rate, prov) ==
    /\ CanCall
    /\ cur' = Args(op, u, out, rate, prov)
    /\ pre' = fs
    /\ log' = <<>>
    /\ xres' = MetaUnset
    /\ ret' = RetUnset
    /\ IF out = Omitted
       THEN \* output_path has no default value: the call itself raises
            /\ outcome' = "raised"
            /\ err' = "TypeError"
            /\ UNCHANGED stack
       ELSE /\ outcome' = "running"
            /\ err' = ""
            /\ stack' = <<Frame(op, u, out, rate, prov)>>
    /\ UNCHANGED <<fs, scratch, exc, procs>>

\* Whether the operation checks the URL before it does anything else
ChecksUrl(op) == op \in {"audio", "video"}

\* An operation that returns at once when the destination already holds
\* a file of its media kind
EarlyReturn_IfValid(op, f, p) ==
    /\ file_exists(f, p)
    /\ f[p].kind = (CASE op = "thumbnail" -> "image" [] op = "audio" -> "audio" [] OTHER -> "video")

\* Whether the operation returns at once because of what the destination
\* holds: no operation looks at the destination before it downloads
EarlyReturn(op, f, p) == FALSE

\* Operations that end with `return output_path`
Returned_Path(op, p) == RetPath(p)

\* What the operations return: every download function ends without a
\* return statement
Returned(op, p) == RetNone

\* The top frame returns to its caller
Return(l) ==
    /\ stack' = Pop
    /\ log' = log \o l
    /\ IF Pop = <<>>
       THEN outcome' = "returned" /\ ret' = Returned(Top.op, Top.out)
       ELSE UNCHANGED <<outcome, ret>>
    /\ UNCHANGED <<fs, scratch, exc, err, cur, xres, pre, procs>>

\* The start of an operation: the URL check (download_audio, download_video),
\* then folder_name_ext and make_directory
Enter ==
    /\ Running
    /\ Top.pc = "enter"
    /\ IF EarlyReturn(Top.op, fs, Top.out)
       THEN Return(<<Ev(Depth, Top.op, "return", TRUE, "early")>>)
       ELSE IF ChecksUrl(Top.op)
       THEN IF ~check(is_working_url(Top.url))
            THEN Fail("check", <<Ev(Depth, Top.op, "reach", FALSE, "")>>)
            ELSE Step([Top EXCEPT !.pc = "acquire"], fs,
                      <<Ev(Depth, Top.op, "reach", is_working_url(Top.url), "")>>)
       ELSE Step([Top EXCEPT !.pc = "acquire"], fs, <<>>)

\* A temp_folder that hands out the same directory to every call
FreshScratch_Shared == CHOOSE i \in 1..3 : \A j \in 1..3 : i <= j

\* osh.temp_folder(): a fresh directory
FreshScratch == CHOOSE i \in 1..3 : i \notin scratch /\ \A j \in 1..(i - 1) : j \in scratch

\* with osh.temp_folder() as temp_directory
Acquire ==
    /\ Running
    /\ Top.pc = "acquire"
    /\ scratch' = scratch \cup {FreshScratch}
    /\ stack' = SetTop([Top EXCEPT !.tmp = FreshScratch,
                                   !.pc = IF Top.op = "composite" THEN "audio" ELSE "extract"])
    /\ log' = Append(log, Ev(Depth, Top.op, "acquire", TRUE, ""))
    /\ UNCHANGED <<fs, exc, outcome, ret, err, cur, xres, pre, procs>>

\* The files of a download result, under `<temp_directory>/<basename>.<ext>`
Store(f, dir, base, files) ==
    [q \in (DOMAIN f) \cup {Path(dir, base, e) : e \in DOMAIN files} |->
        IF q.dir = dir /\ q.base = base /\ q.ext \in DOMAIN files THEN files[q.ext] ELSE f[q]]

\* ydl.download([url]) with outtmpl `<o>.%(ext)s`
Extract ==
    /\ Running
    /\ Top.pc = "extract"
    /\ \E d \in Download(Top.op, Top.url) :
         IF d.r = "raise"
         THEN Fail("tool", <<Ev(Depth, Top.op, "extract", FALSE, "")>>)
         ELSE Step([Top EXCEPT !.pc = "locate"],
                   Store(fs, TmpDir(Top.tmp), Top.out.base, d.files),
                   <<Ev(Depth, Top.op, "extract", TRUE, "")>>)

\* glob.glob(f"{o}.*")
Glob(f, dir, base) == {p \in DOMAIN f : p.dir = dir /\ p.base = base}

\* The result locator: the check on the number of matches, then the first
\* match, in the order glob happens to list them
Locate ==
    /\ Running
    /\ Top.pc = "locate"
    /\ LET found == Glob(fs, TmpDir(Top.tmp), Top.out.base)
       IN IF ~check(Cardinality(found) > 0)
          THEN Fail("check", <<Ev(Depth, Top.op, "locate", FALSE, "")>>)
          ELSE \E p \in found :
                 Step([Top EXCEPT !.recv = p,
                                  !.pc = IF Top.op = "thumbnail" THEN "reconcile" ELSE "validate"],
                      fs, <<Ev(Depth, Top.op, "locate", TRUE, p.ext)>>)

\* The validator of the received file (download_audio, download_video)
ValidReceived(op, f, p) ==
    IF op = "audio" THEN is_valid_audio_file(f, p) ELSE is_valid_video_file(f, p)

Validate ==
    /\ Running
    /\ Top.pc = "validate"
    /\ IF ~check(ValidReceived(Top.op, fs, Top.recv))
       THEN Fail("check", <<Ev(Depth, Top.op, "validate", FALSE, "")>>)
       ELSE Step([Top EXCEPT !.pc = "reconcile"], fs,
                 <<Ev(Depth, Top.op, "validate", ValidReceived(Top.op, fs, Top.recv), "")>>)

\* The reconciliation test without lower(): ext != format
NeedsConversion_CaseSensitive(ext, fmt) == ext # fmt

\* The format reconciliation test: ext.lower() != format.lower()
NeedsConversion(ext, fmt) == Lower(ext) # Lower(fmt)

\* What the converter of the operation is asked to produce from a file:
\* img.save, ah.sound_converter(freq=target_sample_rate), vh.video_converter
Wanted(op, rate, c) ==
    CASE op = "thumbnail" -> Image
      [] op = "audio" -> Audio(rate)
      [] OTHER -> Video(c.height, c.sound)

\* osh.copyfile (thumbnail, audio) or osh.movefile (video) to the destination
Transfer(op, f, from, to) ==
    IF op = "video" THEN RemoveFile(WriteFile(f, to, f[from]), from) ELSE WriteFile(f, to, f[from])

\* An osh.error that logs the message and returns
error_only_logs == FALSE

\* osh.error(msg) in the except clause of download_thumbnail: it logs the
\* message and raises
error_raises == TRUE

\* Whether an exception of the converter leaves the operation: in
\* download_thumbnail it is caught, and osh.error raises in its place
ConverterAborts(op) == op # "thumbnail" \/ error_raises

\* Format reconciliation: the converter when the extensions differ, the
\* verbatim copy or move otherwise
Reconcile ==
    /\ Running
    /\ Top.pc = "reconcile"
    /\ IF NeedsConversion(Top.recv.ext, Top.out.ext)
       THEN \E c \in Convert(fs[Top.recv], Wanted(Top.op, Top.rate, fs[Top.recv])) :
              IF c.r = "raise"
              THEN IF ConverterAborts(Top.op)
                   THEN Fail(IF Top.op = "thumbnail" THEN "error" ELSE "tool",
                             <<Ev(Depth, Top.op, "convert", FALSE, "")>>)
                   ELSE Step([Top EXCEPT !.pc = "release"], fs,
                             <<Ev(Depth, Top.op, "convert", FALSE, "")>>)
              ELSE Step([Top EXCEPT !.pc = "release"], WriteFile(fs, Top.out, c.c),
                        <<Ev(Depth, Top.op, "convert", TRUE, "")>>)
       ELSE Step([Top EXCEPT !.pc = "release"], Transfer(Top.op, fs, Top.recv, Top.out),
                 <<Ev(Depth, Top.op, "copy", TRUE, "")>>)

\* A scratch directory removed at the end of the block only, not when an
\* exception leaves the block
temp_folder_exit_leak(sc, id, raising) == IF raising THEN sc ELSE sc \ {id}

\* The exit of `with osh.temp_folder()`: the scratch directories left, when
\* the block ends normally and when an exception leaves it
temp_folder_exit(sc, id, raising) == sc \ {id}

\* The file system without the directories that were released
Swept(f, before, after) ==
    [q \in {x \in DOMAIN f : \A i \in before \ after : x.dir # TmpDir(i)} |-> f[q]]

Release ==
    /\ Running
    /\ Top.pc = "release"
    /\ LET left == temp_folder_exit(scratch, Top.tmp, FALSE)
       IN /\ scratch' = left
          /\ fs' = Swept(fs, scratch, left)
    /\ stack' = SetTop([Top EXCEPT !.pc = "final", !.tmp = 0])
    /\ log' = Append(log, Ev(Depth, Top.op, "release", TRUE, ""))
    /\ UNCHANGED <<exc, outcome, ret, err, cur, xres, pre, procs>>

\* The check on the destination after the scratch directory is gone:
\* osh.checkfile (thumbnail, video), ah.is_valid_audio_file (audio),
\* vh.is_valid_video_file (composite)
FinalCheck(op, f, p) ==
    CASE op = "audio" -> is_valid_audio_file(f, p)
      [] op = "composite" -> is_valid_video_file(f, p)
      [] OTHER -> file_exists(f, p)

Final ==
    /\ Running
    /\ Top.pc = "final"
    /\ IF ~check(FinalCheck(Top.op, fs, Top.out))
       THEN Fail("check", <<Ev(Depth, Top.op, "final", FALSE, "")>>)
       ELSE Return(<<Ev(Depth, Top.op, "final", FinalCheck(Top.op, fs, Top.out), ""),
                     Ev(Depth, Top.op, "return", TRUE, "")>>)

\* An exception leaves the top frame: its scratch directory is released
\* (the with statement), and the caller sees the exception
Unwind ==
    /\ exc # ""
    /\ stack # <<>>
    /\ LET left == IF Top.tmp # 0 THEN temp_folder_exit(scratch, Top.tmp, TRUE) ELSE scratch
       IN /\ scratch' = left
          /\ fs' = Swept(fs, scratch, left)
    /\ stack' = Pop
    /\ log' = IF Top.tmp # 0 THEN Append(log, Ev(Depth, Top.op, "release", TRUE, "")) ELSE log
    /\ IF Pop = <<>>
       THEN outcome' = "raised" /\ err' = exc /\ exc' = ""
       ELSE UNCHANGED <<outcome, err, exc>>
    /\ UNCHANGED <<ret, cur, xres, pre, procs>>

(***************************************************************************)
(* download_bad_video_with_good_sound                                      *)
(***************************************************************************)
Mp3Path(id) == Path(TmpDir(id), "audio", "mp3")
VideoPath(id) == Path(TmpDir(id), "video", "mp4")
NoSoundPath(id) == Path(TmpDir(id), "video_no_sound", "mp4")

\* A conversion of the supplied audio that writes over the supplied file
AudioTarget_InPlace(id, prov) == prov

\* Where the supplied audio is converted to: audio.mp3 in the scratch directory
AudioTarget(id, prov) == Mp3Path(id)

\* A nested call: the caller moves on to `next` once the callee returns
CallNested(next, prov, callee, l) ==
    /\ stack' = Append(SetTop([Top EXCEPT !.pc = next, !.prov = prov]), callee)
    /\ log' = log \o l
    /\ UNCHANGED <<fs, scratch, exc, outcome, ret, err, cur, xres, pre, procs>>

\* The audio of the composite: downloaded when none is supplied, otherwise
\* validated, and converted to MP3 unless it is MP3 already
AudioStage ==
    /\ Running
    /\ Top.pc = "audio"
    /\ IF emptystring(Top.prov.base)
       THEN CallNested("video", Mp3Path(Top.tmp),
                       Frame("audio", Top.url, Mp3Path(Top.tmp), DefaultSampleRate, NoPath),
                       <<Ev(Depth, "composite", "audio_download", TRUE, "")>>)
       ELSE IF ~check(is_valid_audio_file(fs, Top.prov))
       THEN Fail("check", <<Ev(Depth, "composite", "audio_check", FALSE, "")>>)
       ELSE IF Lower(Top.prov.ext) # "mp3"
       THEN \E c \in Convert(fs[Top.prov], Audio(DefaultSampleRate)) :
              IF c.r = "raise"
              THEN Fail("tool", <<Ev(Depth, "composite", "audio_convert", FALSE, "")>>)
              ELSE Step([Top EXCEPT !.pc = "video", !.prov = AudioTarget(Top.tmp, Top.prov)],
                        WriteFile(fs, AudioTarget(Top.tmp, Top.prov), c.c),
                        <<Ev(Depth, "composite", "audio_convert", TRUE, "")>>)
       ELSE Step([Top EXCEPT !.pc = "video"], fs,
                 <<Ev(Depth, "composite", "audio_asis", TRUE, "")>>)

\* download_video(url, v) into the scratch directory of the composite
VideoStage ==
    /\ Running
    /\ Top.pc = "video"
    /\ CallNested("strip", Top.prov,
                  Frame("video", Top.url, VideoPath(Top.tmp), DefaultSampleRate, NoPath),
                  <<Ev(Depth, "composite", "video_download", TRUE, "")>>)

\* vh.video_converter(v, bad_video_without_sound, without_sound=True, height=240)
StripWanted == Video(LowHeight, FALSE)

Strip ==
    /\ Running
    /\ Top.pc = "strip"
    /\ \E c \in Convert(fs[VideoPath(Top.tmp)], StripWanted) :
         IF c.r = "raise"
         THEN Fail("tool", <<Ev(Depth, "composite", "strip", FALSE, "")>>)
         ELSE Step([Top EXCEPT !.pc = "mux"], WriteFile(fs, NoSoundPath(Top.tmp), c.c),
                   <<Ev(Depth, "composite", "strip", TRUE, "")>>)

\* The multiplexer fed with the downloaded video, not with its 240p copy
MuxVideoInput_Full(id) == VideoPath(id)

\* The video input of the multiplexer, and what ffmpeg is asked to write
\* from its two inputs: the video stream copied, the audio stream encoded
MuxVideoInput(id) == NoSoundPath(id)
MuxInput(v, a) == IF v.kind = "video" /\ a.kind = "audio" THEN v ELSE Junk
Muxed(v, a) == Video(v.height, a.kind = "audio")

Mux ==
    /\ Running
    /\ Top.pc = "mux"
    /\ LET v == fs[MuxVideoInput(Top.tmp)]
           a == fs[Top.prov]
       IN \E c \in Convert(MuxInput(v, a), Muxed(v, a)) :
            IF c.r = "raise"
            THEN Fail("tool", <<Ev(Depth, "composite", "mux", FALSE, "")>>)
            ELSE Step([Top EXCEPT !.pc = "release"], WriteFile(fs, Top.out, c.c),
                      <<Ev(Depth, "composite", "mux", TRUE, "")>>)

(***************************************************************************)
(* The specification                                                       *)
(***************************************************************************)
\* Before the first call: the caller's directory is empty, and the audio
\* files a caller may supply exist.
InitFiles ==
    [p \in {GoodMp3, GoodWav, BadMp3} |->
        IF p = GoodMp3 THEN Audio(DefaultSampleRate)
        ELSE IF p = GoodWav THEN Audio(48000) ELSE Junk]

Init ==
    /\ fs = InitFiles
    /\ scratch = {}
    /\ stack = <<>>
    /\ exc = ""
    /\ outcome = "idle"
    /\ ret = RetUnset
    /\ err = ""
    /\ cur = NoArgs
    /\ log = <<>>
    /\ xres = MetaUnset
    /\ pre = InitFiles
    /\ procs = <<>>

Next ==
    \/ \E u \in Urls : is_valid_video_url(u)
    \/ \E u \in Urls : video_url_meta_data(u)
    \/ \E op \in DownloadOps, u \in Urls :
         \E out \in Dests(op) \cup {Omitted},
            rate \in (IF op = "audio" THEN Rates ELSE {DefaultSampleRate}),
            prov \in (IF op = "composite" THEN Provided ELSE {NoPath}) :
              Invoke(op, u, out, rate, prov)
    \/ Enter
    \/ Acquire
    \/ Extract
    \/ Locate
    \/ Validate
    \/ Reconcile
    \/ Release
    \/ Final
    \/ AudioStage
    \/ VideoStage
    \/ Strip
    \/ Mux
    \/ Unwind

Spec == Init /\ [][Next]_vars

(***************************************************************************)
(* Two callers at once: each runs one call of a downloader, the stages of  *)
(* the two calls interleave, and the file system is shared.  Beside each   *)
(* call runs its shadow: the same call with the same tool results, alone.  *)
(***************************************************************************)
Procs == {1, 2}

\* The destinations of the concurrent calls: one directory, one basename
ConcurrentDests(op) ==
    CASE op = "thumbnail" -> {Path("out", "m", "PNG")}
      [] op = "audio" -> {Path("out", "m", "MP3"), Path("out", "m", "wav")}
      [] OTHER -> {Path("out", "m", "MP4")}

\* A call of a concurrent caller: the frame of the call, its result, and the
\* shadow: the files the call alone has in its scratch directory (sscr, by
\* extension) and at its destination (sdst), its result alone (sres), and
\* whether every decision so far was the decision of the call alone (agree)
Call(op, u, out) ==
    [op |-> op, pc |-> "enter", url |-> u, out |-> out, rate |-> DefaultSampleRate,
     tmp |-> 0, recv |-> NoPath, res |-> "",
     sscr |-> <<>>, sdst |-> {}, sres |-> "", agree |-> TRUE]

Calls ==
    {Call(op, u, out) : op \in Downloaders, u \in {"down", "vid"},
                        out \in UNION {ConcurrentDests(o) : o \in Downloaders}}

InitConcurrent ==
    /\ fs = InitFiles
    /\ scratch = {}
    /\ stack = <<>>
    /\ exc = ""
    /\ outcome = "idle"
    /\ ret = RetUnset
    /\ err = ""
    /\ cur = NoArgs
    /\ log = <<>>
    /\ xres = MetaUnset
    /\ pre = InitFiles
    /\ procs \in {c \in [Procs -> Calls] :
                    /\ \A p \in Procs : c[p].out \in ConcurrentDests(c[p].op)
                    /\ c[1].out # c[2].out}

Sequential == <<stack, exc, outcome, ret, err, cur, log, xres, pre>>

\* The call of caller p moves on
Move(p, c, f, sc) ==
    /\ procs' = [procs EXCEPT ![p] = c]
    /\ fs' = f
    /\ scratch' = sc
    /\ UNCHANGED Sequential

\* The result of the call alone, once a decision of the shadow failed
Alone(c, fails) == IF c.sres = "" /\ fails THEN "raised" ELSE c.sres

\* What the validators and the final check say of the shadow's files
ShadowHas(c, e) == e \in DOMAIN c.sscr
ShadowValid(c, e) ==
    ShadowHas(c, e) /\ c.sscr[e].kind = (IF c.op = "audio" THEN "audio" ELSE "video")
ShadowFinal(c) ==
    c.sdst # {} /\ (c.op = "audio" => \A x \in c.sdst : x.kind = "audio")

PEnter(p) ==
    LET c == procs[p] IN
    /\ c.pc = "enter"
    /\ IF ChecksUrl(c.op) /\ ~check(is_working_url(c.url))
       THEN Move(p, [c EXCEPT !.pc = "raising", !.sres = "raised"], fs, scratch)
       ELSE Move(p, [c EXCEPT !.pc = "acquire"], fs, scratch)

PAcquire(p) ==
    LET c == procs[p] IN
    /\ c.pc = "acquire"
    /\ Move(p, [c EXCEPT !.pc = "extract", !.tmp = FreshScratch], fs,
            scratch \cup {FreshScratch})

PExtract(p) ==
    LET c == procs[p] IN
    /\ c.pc = "extract"
    /\ \E d \in Download(c.op, c.url) :
         IF d.r = "raise"
         THEN Move(p, [c EXCEPT !.pc = "raising", !.sres = "raised"], fs, scratch)
         ELSE Move(p, [c EXCEPT !.pc = "locate", !.sscr = d.files],
                   Store(fs, TmpDir(c.tmp), c.out.base, d.files), scratch)

PLocate(p) ==
    LET c == procs[p]
        found == Glob(fs, TmpDir(c.tmp), c.out.base)
        alone == DOMAIN c.sscr
    IN
    /\ c.pc = "locate"
    /\ IF ~check(Cardinality(found) > 0)
       THEN Move(p, [c EXCEPT !.pc = "raising", !.agree = c.agree /\ alone = {},
                              !.sres = Alone(c, alone = {})], fs, scratch)
       ELSE \E q \in found :
              Move(p, [c EXCEPT !.recv = q,
                                !.pc = IF c.op = "thumbnail" THEN "reconcile" ELSE "validate",
                                !.agree = c.agree /\ q.ext \in alone,
                                !.sres = Alone(c, q.ext \notin alone)], fs, scratch)

PValidate(p) ==
    LET c == procs[p]
        v == ValidReceived(c.op, fs, c.recv)
        sv == ShadowValid(c, c.recv.ext)
    IN
    /\ c.pc = "validate"
    /\ Move(p, [c EXCEPT !.pc = IF check(v) THEN "reconcile" ELSE "raising",
                         !.agree = c.agree /\ (v = sv),
                         !.sres = Alone(c, ~sv)], fs, scratch)

PReconcile(p) ==
    LET c == procs[p]
        e == c.recv.ext
    IN
    /\ c.pc = "reconcile"
    /\ IF ~file_exists(fs, c.recv)
       THEN \* the converter or the copy finds no input: it raises
            Move(p, [c EXCEPT !.pc = "raising", !.agree = c.agree /\ ~ShadowHas(c, e),
                              !.sres = Alone(c, ~ShadowHas(c, e))], fs, scratch)
       ELSE LET input == fs[c.recv]
                same == ShadowHas(c, e) /\ c.sscr[e] = input
            IN IF NeedsConversion(e, c.out.ext)
               THEN \E x \in Convert(input, Wanted(c.op, c.rate, input)) :
                      IF x.r = "raise"
                      THEN Move(p, [c EXCEPT !.pc = "raising", !.agree = c.agree /\ same,
                                             !.sres = Alone(c, TRUE)], fs, scratch)
                      ELSE Move(p, [c EXCEPT !.pc = "release", !.agree = c.agree /\ same,
                                             !.sdst = {x.c}],
                                WriteFile(fs, c.out, x.c), scratch)
               ELSE Move(p, [c EXCEPT !.pc = "release", !.agree = c.agree /\ same,
                                      !.sdst = {input},
                                      !.sscr = IF c.op = "video"
                                               THEN [y \in (DOMAIN c.sscr) \ {e} |-> c.sscr[y]]
                                               ELSE c.sscr],
                         Transfer(c.op, fs, c.recv, c.out), scratch)

PRelease(p) ==
    LET c == procs[p]
        left == temp_folder_exit(scratch, c.tmp, FALSE)
    IN
    /\ c.pc = "release"
    /\ Move(p, [c EXCEPT !.pc = "final", !.tmp = 0, !.sscr = <<>>],
            Swept(fs, scratch, left), left)

PFinal(p) ==
    LET c == procs[p]
        v == FinalCheck(c.op, fs, c.out)
        sv == ShadowFinal(c)
    IN
    /\ c.pc = "final"
    /\ Move(p, [c EXCEPT !.pc = "done",
                         !.res = IF check(v) THEN "returned" ELSE "raised",
                         !.agree = c.agree /\ (v = sv),
                         !.sres = IF c.sres # "" THEN c.sres
                                  ELSE IF sv THEN "returned" ELSE "raised"], fs, scratch)

PUnwind(p) ==
    LET c == procs[p]
        left == IF c.tmp # 0 THEN temp_folder_exit(scratch, c.tmp, TRUE) ELSE scratch
    IN
    /\ c.pc = "raising"
    /\ Move(p, [c EXCEPT !.pc = "done", !.res = "raised", !.tmp = 0, !.sscr = <<>>],
            Swept(fs, scratch, left), left)

NextConcurrent ==
    \/ \E p \in Procs : PEnter(p)
    \/ \E p \in Procs : PAcquire(p)
    \/ \E p \in Procs : PExtract(p)
    \/ \E p \in Procs : PLocate(p)
    \/ \E p \in Procs : PValidate(p)
    \/ \E p \in Procs : PReconcile(p)
    \/ \E p \in Procs : PRelease(p)
    \/ \E p \in Procs : PFinal(p)
    \/ \E p \in Procs : PUnwind(p)

SpecConcurrent == InitConcurrent /\ [][NextConcurrent]_vars

(***************************************************************************)
(* The claims                                                              *)
(***************************************************************************)
Idx == 1..Len(log)
Finished == outcome \in {"returned", "raised"}
Count(d, op, evs) ==
    Cardinality({i \in Idx : log[i].d = d /\ log[i].op = op /\ log[i].ev \in evs})
\* The destination holds a file of the media kind of the operation
ValidAt(op, f, p) ==
    /\ file_exists(f, p)
    /\ f[p].kind = (CASE op = "thumbnail" -> "image" [] op = "audio" -> "audio" [] OTHER -> "video")

\* C1 (as stated): whenever download_thumbnail, download_audio,
\* download_video or download_bad_video_with_good_sound returns, the
\* destination file exists, and passes the audio validator (download_audio)
\* or the video validator (download_video, the composite).
C1_DestinationValidated ==
    (outcome = "returned" /\ cur.op \in DownloadOps) =>
        /\ file_exists(fs, cur.out)
        /\ (cur.op = "audio" => is_valid_audio_file(fs, cur.out))
        /\ (cur.op \in {"video", "composite"} => is_valid_video_file(fs, cur.out))

C3_UrlValidator ==
    (cur.op = "is_valid" /\ outcome # "idle") =>
        /\ outcome = "returned"
        /\ ret.kind = "bool"
        /\ emptystring(cur.url) => (ret.b = FALSE /\ log = <<>>)
        /\ (~emptystring(cur.url) /\ ~is_working_url(cur.url)) =>
             (ret.b = FALSE /\ Count(1, "is_valid", {"extract_info"}) = 0)
        /\ (~emptystring(cur.url) /\ is_working_url(cur.url)) =>
             (ret.b = TRUE <=> xres.r = "dict")

C3_Witness ==
    /\ cur.op = "is_valid" /\ outcome = "returned"
    /\ xres.r = "raise"
    /\ ret = RetBool(FALSE)

\* C4 (as stated): video_url_meta_data fails before the extraction tool runs
\* for an unreachable URL; for a reachable one it returns a mapping with
\* non-null title and description whenever the extraction tool returns a
\* mapping (also one without a title or a description), and fails with a
\* check error when the extraction tool returns nothing.
C4_MetadataOutcomes ==
    (cur.op = "meta" /\ outcome # "idle") =>
        IF ~is_working_url(cur.url)
        THEN outcome = "raised" /\ Count(1, "meta", {"extract_info"}) = 0
        ELSE IF xres.r = "dict"
        THEN /\ outcome = "returned"
             /\ ret.kind = "dict"
             /\ ret.title = "str"
             /\ ret.description = "str"
        ELSE outcome = "raised" /\ err = "check"

\* C5 (as stated): after a successful download_audio the file at the
\* destination has the requested sample rate, on the converter path and on
\* the verbatim-copy path.
C5_SampleRate ==
    (cur.op = "audio" /\ outcome = "returned") =>
        (file_exists(fs, cur.out) /\ fs[cur.out].rate = cur.rate)

\* The destination extension of the operation that logged event i: that of
\* the caller's path, or that of the scratch path the composite passes
DestExt(i) ==
    IF log[i].d = 1 THEN cur.out.ext
    ELSE IF log[i].op = "audio" THEN Mp3Path(1).ext ELSE VideoPath(1).ext
\* The locate event that the reconciliation event i follows
LocateOf(i) ==
    CHOOSE j \in 1..(i - 1) :
        /\ log[j].ev = "locate" /\ log[j].d = log[i].d /\ log[j].op = log[i].op
        /\ \A k \in (j + 1)..(i - 1) : log[k].ev # "locate"

\* C6: in download_thumbnail, download_audio and download_video the
\* converter runs if and only if the extension of the file found in the
\* scratch directory differs, case-insensitively, from the extension of the
\* destination; otherwise the file is copied or moved as it is and no
\* converter runs; a successful call ran exactly one of the two.
C6_Reconciliation ==
    /\ \A i \in Idx :
         log[i].ev \in {"convert", "copy"} =>
            /\ \E j \in 1..(i - 1) : log[j].ev = "locate" /\ log[j].d = log[i].d
            /\ (log[i].ev = "convert") <=> (Lower(log[LocateOf(i)].x) # Lower(DestExt(i)))
    /\ (outcome = "returned" /\ cur.op \in Downloaders) =>
         Count(1, cur.op, {"convert", "copy"}) = 1
    /\ (Running /\ Top.pc = "release" /\ log[Len(log)].ev = "copy") =>
         /\ file_exists(fs, Top.out)
         /\ IF Top.op = "video"
            THEN ~file_exists(fs, Top.recv) /\ is_valid_video_file(fs, Top.out)
            ELSE fs[Top.out] = fs[Top.recv]

C6_Witness ==
    /\ outcome = "returned" /\ cur.op = "audio"
    /\ cur.out.ext = "MP3"
    /\ \E i \in Idx : log[i].ev = "locate" /\ log[i].x = "mp3"
    /\ Count(1, "audio", {"copy"}) = 1

\* The scratch directories the frames of the stack hold
Owned == {stack[i].tmp : i \in 1..Len(stack)} \ {0}

\* C7: every scratch directory belongs to a download operation that is
\* still on the stack, the nested ones included, so once an operation has
\* ended, by a return or by an exception of any stage, its scratch
\* directory and the files in it are gone; none is left after a call.
C7_ScratchReleased ==
    /\ scratch = Owned
    /\ \A p \in DOMAIN fs : p.dir \in ScratchDirs => \E i \in scratch : p.dir = TmpDir(i)
    /\ outcome # "running" => scratch = {}

C7_Witness ==
    /\ outcome = "raised" /\ cur.op = "composite"
    /\ \E i \in Idx : log[i].d = 2 /\ ~log[i].ok /\ log[i].ev = "convert"
    /\ scratch = {}

\* C8: whenever download_bad_video_with_good_sound returns, the destination
\* passes video validation, has height 240 and has an audio track.
C8_CompositeResult ==
    (outcome = "returned" /\ cur.op = "composite") =>
        /\ is_valid_video_file(fs, cur.out)
        /\ fs[cur.out].height = 240
        /\ fs[cur.out].sound

C8_Witness ==
    /\ outcome = "returned" /\ cur.op = "composite"
    /\ cur.prov = NoPath
    /\ file_exists(pre, cur.out) /\ pre[cur.out].height = NativeHeight

C10_FailureAborts ==
    cur.op \in DownloadOps =>
        /\ \A i \in Idx : ~log[i].ok => \A j \in (i + 1)..Len(log) : log[j].ev = "release"
        /\ outcome = "returned" => \A i \in Idx : log[i].ok
        /\ (outcome # "running" /\ \E i \in Idx : ~log[i].ok) => outcome = "raised"
        /\ \A d \in 1..2 : \A op \in Downloaders : Count(d, op, {"extract"}) <= 1

C10_Witness ==
    /\ outcome = "raised" /\ cur.op = "thumbnail"
    /\ \E i \in Idx : log[i].ev = "convert" /\ ~log[i].ok
    /\ file_exists(fs, cur.out)

\* C11 (as stated): the result locator of download_thumbnail, download_audio
\* and download_video goes on only when exactly one file of the scratch
\* directory matches `<basename>.*`: with no match and with several matches
\* the operation fails.
C11_ExactlyOneMatch ==
    (Running /\ Top.op \in Downloaders /\ Top.recv # NoPath
        /\ Top.pc \in {"validate", "reconcile"}) =>
        Cardinality(Glob(fs, TmpDir(Top.tmp), Top.out.base)) = 1

\* C12: download_thumbnail raises whenever the image re-encoding throws: it
\* never returns after a failed re-encode, also when a file was at the
\* destination before the call, and that file is left as it was.
C12_ReencodeFailureRaises ==
    (cur.op = "thumbnail" /\ \E i \in Idx : log[i].ev = "convert" /\ ~log[i].ok) =>
        /\ outcome # "returned"
        /\ ~log[Len(log)].ok => exc = "error"
        /\ outcome # "running" => (outcome = "raised" /\ err = "error")
        /\ file_exists(pre, cur.out) => (file_exists(fs, cur.out) /\ fs[cur.out] = pre[cur.out])

C12_Witness ==
    /\ cur.op = "thumbnail" /\ outcome = "raised" /\ err = "error"
    /\ \E i \in Idx : log[i].ev = "convert" /\ ~log[i].ok
    /\ file_exists(pre, cur.out) /\ pre[cur.out].kind = "image"

\* The stages of the composite in the log, and their order
AudioEvents == {"audio_download", "audio_check", "audio_convert", "audio_asis"}
Staged(i) ==
    /\ log[i].d = 1 /\ log[i].op = "composite"
    /\ log[i].ev \in AudioEvents \cup {"video_download", "strip", "mux"}
Rank(i) ==
    CASE log[i].ev \in AudioEvents -> 1
      [] log[i].ev = "video_download" -> 2
      [] log[i].ev = "strip" -> 3
      [] OTHER -> 4
Supplied == cur.prov # NoPath
SuppliedValid == Supplied /\ is_valid_audio_file(pre, cur.prov)
SuppliedMp3 == SuppliedValid /\ Lower(cur.prov.ext) = "mp3"

\* C13: in download_bad_video_with_good_sound the audio is downloaded by
\* download_audio into a scratch MP3 when none is supplied; a supplied valid
\* MP3 is used as it is, with no audio download and no conversion; a
\* supplied valid file that is not MP3 is converted into a scratch MP3 and
\* is itself left unmodified; a supplied invalid file fails the call before
\* any download.  The stages run in the order audio, video download, 240p
\* copy without sound, multiplex, each only after the earlier ones succeeded.
C13_AudioSelectionAndOrder ==
    cur.op = "composite" =>
        /\ \A p \in DOMAIN InitFiles : file_exists(fs, p) /\ fs[p] = InitFiles[p]
        /\ \A i \in Idx :
             (log[i].d = 1 /\ log[i].op = "composite") =>
                /\ log[i].ev = "audio_download" => ~Supplied
                /\ log[i].ev = "audio_asis" => SuppliedMp3
                /\ log[i].ev = "audio_convert" => (SuppliedValid /\ ~SuppliedMp3)
                /\ log[i].ev = "audio_check" => (Supplied /\ ~SuppliedValid /\ ~log[i].ok)
                /\ log[i].ev = "video_download" =>
                     /\ ~Supplied =>
                          \E j \in 1..(i - 1) : log[j].d = 2 /\ log[j].op = "audio" /\ log[j].ev = "return"
                     /\ Supplied =>
                          /\ SuppliedValid
                          /\ \A j \in 1..(i - 1) : log[j].op # "audio"
                          /\ Count(1, "composite", {"audio_asis"}) = (IF SuppliedMp3 THEN 1 ELSE 0)
                          /\ Count(1, "composite", {"audio_convert"}) = (IF SuppliedMp3 THEN 0 ELSE 1)
                /\ log[i].ev = "strip" =>
                     \E j \in 1..(i - 1) : log[j].d = 2 /\ log[j].op = "video" /\ log[j].ev = "return"
        /\ (Supplied /\ ~SuppliedValid) =>
             /\ \A i \in Idx : log[i].ev \notin {"extract", "audio_download", "video_download"}
             /\ outcome # "returned"
        /\ \A k \in 1..Len(stack) :
             (stack[k].op = "composite" /\ stack[k].pc \in {"video", "strip", "mux", "release"}) =>
                stack[k].prov = (IF SuppliedMp3 THEN cur.prov ELSE Mp3Path(stack[k].tmp))
        /\ \A i \in Idx : \A j \in Idx :
             (Staged(i) /\ Staged(j) /\ i < j) => (Rank(i) < Rank(j) /\ log[i].ok)
        /\ \A j \in Idx :
             (Staged(j) /\ Rank(j) > 1) =>
                \E i \in 1..(j - 1) : Staged(i) /\ Rank(i) = Rank(j) - 1
        /\ \A j \in Idx :
             (Staged(j) /\ log[j].ev = "mux") => \A i \in 1..(j - 1) : log[i].ok
        /\ outcome = "returned" => \E j \in Idx : Staged(j) /\ log[j].ev = "mux" /\ log[j].ok

C13_Witness ==
    /\ cur.op = "composite" /\ outcome = "returned"
    /\ cur.prov = GoodWav
    /\ Count(1, "composite", {"audio_convert"}) = 1

\* What caller p has in its scratch directory and at its destination
SameFiles(a, b) == DOMAIN a = DOMAIN b /\ \A e \in DOMAIN a : a[e] = b[e]
InScratch(p) ==
    [e \in {q.ext : q \in Glob(fs, TmpDir(procs[p].tmp), procs[p].out.base)} |->
        fs[Path(TmpDir(procs[p].tmp), procs[p].out.base, e)]]
AtDestination(p) == IF file_exists(fs, procs[p].out) THEN {fs[procs[p].out]} ELSE {}

\* C14: two download calls that run at once with different destinations,
\* also with the same URL and the same basename, have each their own scratch
\* directory; each finds in its scratch directory and at its destination
\* what it would find alone (no file of one is read, moved or deleted by the
\* other), takes the decisions it would take alone, and ends with the result
\* and the destination file it would have alone.
C14_Isolation ==
    \A p \in DOMAIN procs :
        /\ \A q \in DOMAIN procs :
             (p # q /\ procs[p].tmp # 0 /\ procs[q].tmp # 0) => procs[p].tmp # procs[q].tmp
        /\ procs[p].tmp # 0 =>
             (procs[p].tmp \in scratch /\ SameFiles(InScratch(p), procs[p].sscr))
        /\ procs[p].recv # NoPath /\ procs[p].tmp # 0 =>
             procs[p].recv.dir = TmpDir(procs[p].tmp)
        /\ AtDestination(p) = procs[p].sdst
        /\ procs[p].agree
        /\ procs[p].pc = "done" => procs[p].res = procs[p].sres

C14_Witness ==
    /\ DOMAIN procs = Procs
    /\ procs[1].pc = "release" /\ procs[2].pc = "release"
    /\ procs[1].url = procs[2].url /\ procs[1].out.base = procs[2].out.base
    /\ procs[1].op = "audio" /\ procs[2].op = "audio"
    /\ procs[1].recv.ext = procs[2].recv.ext

====
